---------------------------- MODULE Spec2Model ----------------------------
(***************************************************************************)
(* Fruchterman-Reingold force-directed layout (src/src/fruchterman_reingold.rs) *)
(* over the 2D vector type P2d (src/src/p2d.rs).                           *)
(*                                                                         *)
(* Scalars are f32 in the source.  Here a scalar is a binary floating-point *)
(* number [m |-> mantissa, e |-> exponent] of value m * 2^e with a signed   *)
(* mantissa of Prec significant bits; every arithmetic operation rounds its *)
(* exact result to nearest, ties to even, as IEEE 754 does.  The exponent   *)
(* is unbounded: overflow to infinity and underflow do not occur for the    *)
(* magnitudes the model reaches.                                            *)
(***************************************************************************)
EXTENDS Integers, Sequences, FiniteSets

\* Significant bits of a scalar (24 in f32).
Prec == 11

(***************************************************************************)
(* f32 arithmetic                                                          *)
(***************************************************************************)
Zero == [m |-> 0, e |-> 0]

Abs(x) == IF x < 0 THEN -x ELSE x

RECURSIVE BitLen(_)
BitLen(x) == IF x < 2 THEN 1 ELSE 1 + BitLen(x \div 2)

\* The scalar nearest to sgn * M * 2^e (M >= 0); sticky says that the exact
\* value lies strictly above M * 2^e (bits lost below M).
RoundTo(sgn, M, e, sticky) ==
    IF M = 0 THEN Zero
    ELSE LET bl == BitLen(M) IN
         IF bl <= Prec
         THEN [m |-> sgn * M * 2^(Prec - bl), e |-> e - (Prec - bl)]
         ELSE LET sh   == bl - Prec
                  q    == M \div 2^sh
                  r    == M % 2^sh
                  half == 2^(sh - 1)
                  up   == \/ r > half
                          \/ r = half /\ (sticky \/ q % 2 = 1)
                  q2   == IF up THEN q + 1 ELSE q
              IN IF q2 = 2^Prec
                 THEN [m |-> sgn * 2^(Prec - 1), e |-> e + sh + 1]
                 ELSE [m |-> sgn * q2, e |-> e + sh]

Sgn(x) == IF x < 0 THEN -1 ELSE 1

FromInt(k) == RoundTo(Sgn(k), Abs(k), 0, FALSE)

FNeg(a) == [m |-> -a.m, e |-> a.e]

FAdd(a, b) ==
    IF a.m = 0 THEN b
    ELSE IF b.m = 0 THEN a
    ELSE LET hi == IF a.e >= b.e THEN a ELSE b
             lo == IF a.e >= b.e THEN b ELSE a
             d  == hi.e - lo.e
         IN IF d > Prec + 2 THEN hi
            ELSE LET s == hi.m * 2^d + lo.m
                 IN RoundTo(Sgn(s), Abs(s), lo.e, FALSE)

FSub(a, b) == FAdd(a, FNeg(b))

FMul(a, b) ==
    LET p == a.m * b.m IN RoundTo(Sgn(p), Abs(p), a.e + b.e, FALSE)

\* a / b for b # 0.
FDiv(a, b) ==
    LET num == Abs(a.m) * 2^(Prec + 2)
        den == Abs(b.m)
    IN RoundTo(Sgn(a.m) * Sgn(b.m), num \div den, a.e - b.e - (Prec + 2),
               num % den # 0)

\* The largest r in lo .. hi-1 with r * r <= x.
RECURSIVE SqrtSearch(_, _, _)
SqrtSearch(x, lo, hi) ==
    IF hi - lo <= 1 THEN lo
    ELSE LET mid == (lo + hi) \div 2
         IN IF mid * mid <= x THEN SqrtSearch(x, mid, hi)
                              ELSE SqrtSearch(x, lo, mid)

\* sqrt(a) for a >= 0.
FSqrt(a) ==
    IF a.m = 0 THEN Zero
    ELSE LET k == IF (a.e - (Prec + 3)) % 2 = 0 THEN Prec + 3 ELSE Prec + 4
             x == a.m * 2^k
             r == SqrtSearch(x, 0, 2^(Prec + 2))
         IN RoundTo(1, r, (a.e - k) \div 2, r * r # x)

FLt(a, b) == FSub(a, b).m < 0

FGt(a, b) == FLt(b, a)


One == FromInt(1)

MinusOne == FromInt(-1)

\* The scalar nearest to a / b.
Q(a, b) == FDiv(FromInt(a), FromInt(b))

(***************************************************************************)
(* P2d, the 2D implementation of Vector                                    *)
(***************************************************************************)
P2d(x, y) == [x |-> x, y |-> y]

P2dNew == P2d(Zero, Zero)

length_squared(v) == FAdd(FMul(v.x, v.x), FMul(v.y, v.y))

scale(v, factor) == P2d(FMul(v.x, factor), FMul(v.y, factor))

sub(v, other) == P2d(FSub(v.x, other.x), FSub(v.y, other.y))

add_scaled(v, factor, other) ==
    P2d(FAdd(v.x, FMul(factor, other.x)), FAdd(v.y, FMul(factor, other.y)))

\* Faulty variant, for mutation checks: the upper bound is not enforced.
clip_coord_lower_only(c, lo, hi) == IF FLt(c, lo) THEN lo ELSE c

clip_coord(c, lo, hi) == IF FLt(c, lo) THEN lo ELSE IF FGt(c, hi) THEN hi ELSE c

clip_within(v, min, max) ==
    P2d(clip_coord(v.x, min.x, max.x), clip_coord(v.y, min.y, max.y))

(***************************************************************************)
(* Force model                                                             *)
(***************************************************************************)
attractive_force(p1, p2, ks) ==
    LET force    == sub(p1, p2)
        length   == FSqrt(length_squared(force))
        strength == FDiv(length, ks)
    IN scale(force, strength)

repulsive_force(p1, p2, kr) ==
    LET force          == sub(p1, p2)
        lsq            == length_squared(force)
    IN IF FGt(lsq, Zero) THEN scale(force, FDiv(kr, lsq)) ELSE force

(***************************************************************************)
(* Bounds of the model and the inputs it draws from                        *)
(***************************************************************************)
\* Largest number of nodes.
MaxN == 3

\* MAX_ITER of layout_typical_2d (300 in the source) and the largest max_iter
\* handed to layout.
MAX_ITER == 3

\* EPS and temp of layout_typical_2d.
EPS == Q(1, 100)

temp == Q(1, 10)

min_pos == P2d(Zero, Zero)

max_pos == P2d(One, One)

\* Stands for the f32 +infinity that sqrt(1.0 / 0 as f32) yields; it never
\* enters an arithmetic operation, because then there is no node to apply a
\* force to.
PosInf == [m |-> 1, e |-> 2^20]

\* Initial placements are drawn from these points: inside the region, on its
\* border, outside it, and two pairs of points about 1/1024 apart.
Pts ==
    << P2d(Q(1, 4), Q(1, 2)),
       P2d(Q(257, 1024), Q(513, 1024)),
       P2d(Q(3, 4), Q(1, 4)),
       P2d(Zero, Zero),
       P2d(Q(1, 1024), Q(1, 2048)),
       P2d(One, Q(5, 8)),
       P2d(Q(3, 2), Q(-1, 4)) >>

\* n nodes placed at every stride-th point starting from the start-th.
Placement(n, start, stride) ==
    [i \in 0 .. n - 1 |-> Pts[((start + i * stride) % Len(Pts)) + 1]]

Placements(n) ==
    {Placement(n, start, stride) : start \in 0 .. Len(Pts) - 1, stride \in 0 .. 2}

\* Adjacency lists over n nodes: none, a chain, a cycle (a self-loop when
\* n = 1, both directions when n = 2), a fan with a duplicate entry, and one
\* entry that names no node.
Adjacencies(n) ==
    IF n = 0 THEN {<< >>}
    ELSE { [i \in 0 .. n - 1 |-> << >>],
           [i \in 0 .. n - 1 |-> IF i < n - 1 THEN <<i + 1>> ELSE << >>],
           [i \in 0 .. n - 1 |-> <<(i + 1) % n>>],
           [i \in 0 .. n - 1 |-> IF i = 0 THEN <<n - 1, n - 1, (n - 1) \div 2>> ELSE << >>],
           [i \in 0 .. n - 1 |-> IF i = n - 1 THEN <<n>> ELSE << >>] }

\* The `l` argument, an Option<f32>: None is << >> and Some(l) is <<l>>.
None == << >>

Some(l) == <<l>>

Ls == {None, Some(Q(1, 2))}

Epsilons == {Zero, EPS, Q(3, 20)}

(***************************************************************************)
(* State                                                                   *)
(***************************************************************************)
VARIABLES
    node_positions,          \* the caller's Vec<P2d>, indexed from 0
    node_neighbors,          \* the caller's [Vec<usize>], indexed from 0
    forces,                  \* Layout.forces
    lock_first_n_positions,  \* Layout.lock_first_n_positions
    max_iter, converge_eps, k_r, k_s, dt,   \* arguments of layout
    iter,                    \* layout's loop counter
    step,                    \* step_fn(iter) of the running iteration
    dist_moved,              \* what iterate returned last
    pc,                      \* where the call stands
    fault,                   \* the panic that ended the call, or "none"
    pos0,                    \* node_positions when the call was made
    prev_pos,                \* node_positions when the running iteration began
    moved                    \* dist_moved of every iteration so far

vars == << node_positions, node_neighbors, forces, lock_first_n_positions,
           max_iter, converge_eps, k_r, k_s, dt, iter, step, dist_moved,
           pc, fault, pos0, prev_pos, moved >>

Size(f) == Cardinality(DOMAIN f)

(***************************************************************************)
(* Layout: the ForceDirected implementation                                *)
(***************************************************************************)
reset_forces(fs) == [i \in DOMAIN fs |-> P2dNew]

\* for i1 in 0..n-1 { for i2 in i1+1..n { ... } }, entered at (i1, i2).
RECURSIVE node_pair_loop(_, _, _, _, _, _)
node_pair_loop(fs, pos, i1, i2, n, kr) ==
    IF i1 >= n - 1 THEN fs
    ELSE IF i2 >= n THEN node_pair_loop(fs, pos, i1 + 1, i1 + 2, n, kr)
    ELSE LET force == repulsive_force(pos[i1], pos[i2], kr)
             f1    == [fs EXCEPT ![i1] = add_scaled(@, One, force)]
             f2    == [f1 EXCEPT ![i2] = add_scaled(@, MinusOne, force)]
         IN node_pair_loop(f2, pos, i1, i2 + 1, n, kr)

\* Faulty variant, for mutation checks: the force is added to both accumulators of a pair.
RECURSIVE node_pair_loop_added_twice(_, _, _, _, _, _)
node_pair_loop_added_twice(fs, pos, i1, i2, n, kr) ==
    IF i1 >= n - 1 THEN fs
    ELSE IF i2 >= n THEN node_pair_loop_added_twice(fs, pos, i1 + 1, i1 + 2, n, kr)
    ELSE LET force == repulsive_force(pos[i1], pos[i2], kr)
             f1    == [fs EXCEPT ![i1] = add_scaled(@, One, force)]
             f2    == [f1 EXCEPT ![i2] = add_scaled(@, One, force)]
         IN node_pair_loop_added_twice(f2, pos, i1, i2 + 1, n, kr)

update_force_each_node_pair_added_twice(fs, pos, kr) ==
    node_pair_loop_added_twice(fs, pos, 0, 1, Size(pos), kr)

\* n >= 1; with n = 0 the bound n - 1 of the outer loop underflows.
update_force_each_node_pair(fs, pos, kr) ==
    node_pair_loop(fs, pos, 0, 1, Size(pos), kr)

\* for i1 in 0..n { for &i2 in node_neighbors[i1] { ... } }, entered at the
\* j-th entry of node i1. An entry i2 >= n panics at node_positions[i2], and
\* a node without a list at node_neighbors[i1].
RECURSIVE edge_loop(_, _, _, _, _, _, _)
edge_loop(fs, pos, nbrs, i1, j, n, ks) ==
    IF i1 >= n THEN [forces |-> fs, fault |-> "none"]
    ELSE IF i1 \notin DOMAIN nbrs THEN [forces |-> fs, fault |-> "index out of bounds"]
    ELSE IF j > Len(nbrs[i1]) THEN edge_loop(fs, pos, nbrs, i1 + 1, 1, n, ks)
    ELSE LET i2 == nbrs[i1][j] IN
         IF i2 >= n THEN [forces |-> fs, fault |-> "index out of bounds"]
         ELSE LET force == scale(attractive_force(pos[i1], pos[i2], ks), MinusOne)
                  f1    == [fs EXCEPT ![i1] = add_scaled(@, One, force)]
                  f2    == [f1 EXCEPT ![i2] = add_scaled(@, MinusOne, force)]
              IN edge_loop(f2, pos, nbrs, i1, j + 1, n, ks)

\* Faulty variant, for mutation checks: an entry i1 -> i2 acts on accumulator i1 alone.
RECURSIVE edge_loop_one_sided(_, _, _, _, _, _, _)
edge_loop_one_sided(fs, pos, nbrs, i1, j, n, ks) ==
    IF i1 >= n THEN [forces |-> fs, fault |-> "none"]
    ELSE IF i1 \notin DOMAIN nbrs THEN [forces |-> fs, fault |-> "index out of bounds"]
    ELSE IF j > Len(nbrs[i1]) THEN edge_loop_one_sided(fs, pos, nbrs, i1 + 1, 1, n, ks)
    ELSE LET i2 == nbrs[i1][j] IN
         IF i2 >= n THEN [forces |-> fs, fault |-> "index out of bounds"]
         ELSE LET force == scale(attractive_force(pos[i1], pos[i2], ks), MinusOne)
                  f1    == [fs EXCEPT ![i1] = add_scaled(@, One, force)]
              IN edge_loop_one_sided(f1, pos, nbrs, i1, j + 1, n, ks)

update_force_each_edge_one_sided(fs, pos, nbrs, ks) ==
    edge_loop_one_sided(fs, pos, nbrs, 0, 1, Size(pos), ks)

update_force_each_edge(fs, pos, nbrs, ks) ==
    edge_loop(fs, pos, nbrs, 0, 1, Size(pos), ks)

\* Faulty variant, for mutation checks: the displacement is step times the raw force.
integrate_unnormalized(position, force, st) ==
    LET length == FSqrt(length_squared(force)) IN
    IF FGt(length, Zero)
    THEN [pos |-> clip_within(add_scaled(position, st, force), min_pos, max_pos),
          dist |-> st]
    ELSE [pos |-> clip_within(position, min_pos, max_pos), dist |-> Zero]

\* Faulty variant, for mutation checks: step is counted for the nodes whose position changes.
integrate_counting_moves(position, force, st) ==
    LET length == FSqrt(length_squared(force))
        target == IF FGt(length, Zero)
                  THEN add_scaled(position, FDiv(st, length), force)
                  ELSE position
        new    == clip_within(target, min_pos, max_pos)
    IN [pos |-> new, dist |-> IF new # position THEN st ELSE Zero]

\* Faulty variant, for mutation checks: step is counted for a node without net force too.
integrate_counting_all(position, force, st) ==
    LET length == FSqrt(length_squared(force)) IN
    IF FGt(length, Zero)
    THEN [pos |-> clip_within(add_scaled(position, FDiv(st, length), force),
                              min_pos, max_pos),
          dist |-> st]
    ELSE [pos |-> clip_within(position, min_pos, max_pos), dist |-> st]

\* The closure iterate hands to update_positions: the new position of a node
\* and what it adds to sum_distance.
integrate(position, force, st) ==
    LET length == FSqrt(length_squared(force)) IN
    IF FGt(length, Zero)
    THEN [pos |-> clip_within(add_scaled(position, FDiv(st, length), force),
                              min_pos, max_pos),
          dist |-> st]
    ELSE [pos |-> clip_within(position, min_pos, max_pos), dist |-> Zero]

\* for i in lock_first_n_positions..n { ... }, entered at i.
RECURSIVE position_loop(_, _, _, _, _, _)
position_loop(pos, fs, i, n, st, sum) ==
    IF i >= n THEN [pos |-> pos, sum |-> sum]
    ELSE LET r == integrate(pos[i], fs[i], st)
         IN position_loop([pos EXCEPT ![i] = r.pos], fs, i + 1, n, st,
                          FAdd(sum, r.dist))

\* Faulty variant, for mutation checks: the loop starts at node 0.
update_positions_from_zero(pos, fs, lock, st) ==
    position_loop(pos, fs, 0, Size(pos), st, Zero)

update_positions(pos, fs, lock, st) ==
    position_loop(pos, fs, lock, Size(pos), st, Zero)

(***************************************************************************)
(* The call: layout_typical_2d, or layout on a Layout the caller built      *)
(***************************************************************************)
\* Adjacencies of the wrong shape for n nodes: one list more, one list less.
Mismatched(n) ==
    {[i \in 0 .. n |-> << >>]} \cup
    (IF n >= 1 THEN {[i \in 0 .. n - 2 |-> <<0>>]} ELSE {})

Inputs ==
    UNION { {[pos |-> p, nbrs |-> a] :
                 p \in Placements(n),
                 a \in Adjacencies(n) \cup Mismatched(n) }
            : n \in 0 .. MaxN }

Init ==
    /\ \E in \in Inputs :
          /\ node_positions = in.pos
          /\ node_neighbors = in.nbrs
    /\ forces = << >>
    /\ lock_first_n_positions = 0
    /\ max_iter = 0
    /\ converge_eps = Zero
    /\ k_r = Zero
    /\ k_s = Zero
    /\ dt = Zero
    /\ iter = 0
    /\ step = Zero
    /\ dist_moved = Zero
    /\ pc = "Idle"
    /\ fault = "none"
    /\ pos0 = node_positions
    /\ prev_pos = node_positions
    /\ moved = << >>

\* `l.unwrap_or((1.0 / n as f32).sqrt())`
ideal_length(l, n) ==
    IF l # None THEN l[1]
    ELSE IF n = 0 THEN PosInf
    ELSE FSqrt(FDiv(One, FromInt(n)))

square(l) == IF l = PosInf THEN PosInf ELSE FMul(l, l)

\* Faulty variant, for mutation checks: no assertion.
shape_unchecked(pos, nbrs) == TRUE

\* `assert!(node_neighbors.len() == n);`
shape_ok(pos, nbrs) == Size(nbrs) = Size(pos)

\* Layout::new, lock_first_n_positions and the entry of layout: the shape is
\* asserted, then the forces are allocated and the loop starts at iter = 0.
Enter(l, lock, mi, eps) ==
    LET n == Size(node_positions) IN
    IF ~shape_ok(node_positions, node_neighbors)
    THEN /\ pc' = "Panic"
         /\ fault' = "assertion failed: node_neighbors.len() == n"
         /\ UNCHANGED << node_positions, node_neighbors, forces,
                         lock_first_n_positions, max_iter, converge_eps, k_r,
                         k_s, dt, iter, step, dist_moved, pos0, prev_pos, moved >>
    ELSE /\ forces' = [i \in 0 .. n - 1 |-> P2dNew]
         /\ lock_first_n_positions' = lock
         /\ max_iter' = mi
         /\ converge_eps' = eps
         /\ k_r' = square(ideal_length(l, n))
         /\ k_s' = ideal_length(l, n)
         /\ dt' = IF mi = 0 THEN PosInf ELSE FDiv(temp, FromInt(mi))
         /\ iter' = 0
         /\ pos0' = node_positions
         /\ pc' = "loop"
         /\ UNCHANGED << node_positions, node_neighbors, step, dist_moved,
                         fault, prev_pos, moved >>

layout_typical_2d ==
    /\ pc = "Idle"
    /\ \E l \in Ls, lock \in 0 .. Size(node_positions) + 1 :
          Enter(l, lock, MAX_ITER, EPS)

\* layout called on a new Layout (no node locked) with a max_iter and a
\* converge_eps of the caller's choosing, and the cooling schedule, region,
\* k_r and k_s of layout_typical_2d.
layout ==
    /\ pc = "Idle"
    /\ \E mi \in 0 .. MAX_ITER, eps \in Epsilons :
          Enter(None, 0, mi, eps)

\* `let step_fn = |iter| temp - (iter as f32 * dt);`
step_fn(i) == FSub(temp, FMul(FromInt(i), dt))

\* `while iter < max_iter { let step = step_fn(iter); iter += 1; ...`
LoopHead ==
    /\ pc = "loop"
    /\ IF iter < max_iter
       THEN /\ step' = step_fn(iter)
            /\ iter' = iter + 1
            /\ prev_pos' = node_positions
            /\ pc' = "reset_forces"
       ELSE /\ pc' = "Exhausted"
            /\ UNCHANGED << step, iter, prev_pos >>
    /\ UNCHANGED << node_positions, node_neighbors, forces,
                    lock_first_n_positions, max_iter, converge_eps, k_r, k_s,
                    dt, dist_moved, fault, pos0, moved >>

IterateFrame ==
    << node_neighbors, lock_first_n_positions, max_iter, converge_eps, k_r,
       k_s, dt, iter, step, pos0, prev_pos >>

ResetForces ==
    /\ pc = "reset_forces"
    /\ forces' = reset_forces(forces)
    /\ pc' = "update_force_each_node_pair"
    /\ UNCHANGED << IterateFrame, node_positions, dist_moved, fault, moved >>

\* With n = 0 the loop bound n - 1 underflows: a panic in a build with
\* overflow checks, and otherwise an outer loop over 0..usize::MAX whose inner
\* range i1+1..0 is empty every time.
NodePairs ==
    /\ pc = "update_force_each_node_pair"
    /\ IF Size(node_positions) = 0
       THEN \E checked \in BOOLEAN :
               /\ pc' = IF checked THEN "Panic" ELSE "update_force_each_edge"
               /\ fault' = IF checked THEN "attempt to subtract with overflow"
                                      ELSE fault
               /\ UNCHANGED forces
       ELSE /\ forces' = update_force_each_node_pair(forces, node_positions, k_r)
            /\ pc' = "update_force_each_edge"
            /\ UNCHANGED fault
    /\ UNCHANGED << IterateFrame, node_positions, dist_moved, moved >>

Edges ==
    /\ pc = "update_force_each_edge"
    /\ LET r == update_force_each_edge(forces, node_positions, node_neighbors, k_s)
       IN /\ forces' = r.forces
          /\ fault' = r.fault
          /\ pc' = IF r.fault = "none" THEN "update_positions" ELSE "Panic"
    /\ UNCHANGED << IterateFrame, node_positions, dist_moved, moved >>

\* update_positions and the return of iterate.
UpdatePositions ==
    /\ pc = "update_positions"
    /\ LET r == update_positions(node_positions, forces,
                                 lock_first_n_positions, step)
       IN /\ node_positions' = r.pos
          /\ dist_moved' = r.sum
          /\ moved' = Append(moved, r.sum)
    /\ pc' = "iterated"
    /\ UNCHANGED << IterateFrame, forces, fault >>

\* Faulty variant, for mutation checks: `<=` for `<`.
converged_or_equal(dist, eps) == ~FLt(eps, dist)

\* `if dist_moved < converge_eps { break; }`
converged(dist, eps) == FLt(dist, eps)

LoopCheck ==
    /\ pc = "iterated"
    /\ pc' = IF converged(dist_moved, converge_eps) THEN "Converged" ELSE "loop"
    /\ UNCHANGED << IterateFrame, node_positions, forces, dist_moved, fault, moved >>

Next ==
    \/ layout_typical_2d
    \/ layout
    \/ LoopHead
    \/ ResetForces
    \/ NodePairs
    \/ Edges
    \/ UpdatePositions
    \/ LoopCheck

Spec == Init /\ [][Next]_vars

(***************************************************************************)
(* Properties                                                              *)
(***************************************************************************)
N == Size(node_positions)

ShapesMatch == Size(node_neighbors) = N

Locked == {i \in DOMAIN node_positions : i < lock_first_n_positions}

Unlocked == DOMAIN node_positions \ Locked

FLe(a, b) == ~FLt(b, a)

InRegion(p) ==
    /\ FLe(min_pos.x, p.x) /\ FLe(p.x, max_pos.x)
    /\ FLe(min_pos.y, p.y) /\ FLe(p.y, max_pos.y)

NoEdges == \A i \in DOMAIN node_neighbors : node_neighbors[i] = << >>

EdgesInRange ==
    \A i \in DOMAIN node_neighbors :
        \A j \in 1 .. Len(node_neighbors[i]) : node_neighbors[i][j] < N

\* At least one iteration has run to its end.
Iterated == Len(moved) >= 1

\* C1 as claimed: after any number of iterations the positions sequence has
\* its length n and every position, locked or not, lies within
\* [min_pos, max_pos].
C1_EveryPositionInRegion ==
    Iterated =>
        /\ Size(node_positions) = Size(pos0)
        /\ \A i \in DOMAIN node_positions : InRegion(node_positions[i])

\* C1 as amended: the positions sequence keeps its length n, and after one or
\* more iterations every position that is not locked (index >= K) lies within
\* [min_pos, max_pos]; a locked position is never clamped, it keeps the
\* coordinates the caller gave it, inside the region or not.
C1_UnlockedPositionsInRegion ==
    /\ DOMAIN node_positions = DOMAIN pos0
    /\ Iterated =>
          /\ \A i \in Unlocked : InRegion(node_positions[i])
          /\ \A i \in Locked : InRegion(node_positions[i]) <=> InRegion(pos0[i])

C1_Witness ==
    /\ Iterated
    /\ \E i \in Locked : ~InRegion(node_positions[i])
    /\ \E i \in Unlocked : ~InRegion(pos0[i]) /\ InRegion(node_positions[i])

\* C2: the position of every node with index < K is the one the caller gave
\* it, whatever the number of iterations (with K >= n no position changes).
C2_Anchoring ==
    \A i \in Locked : node_positions[i] = pos0[i]

C2_Witness ==
    /\ Len(moved) >= 2
    /\ \E i \in Locked : forces[i] # P2dNew
    /\ \E i \in Unlocked : node_positions[i] # pos0[i]

\* C3 as claimed: with n = 1 and no edges the first iteration reports a total
\* movement of exactly 0 and the loop stops after it as Converged, for every
\* converge_eps >= 0 and every max_iter >= 1.
C3_SingleNodeConverges ==
    (N = 1 /\ ShapesMatch /\ NoEdges /\ max_iter >= 1) =>
        /\ Iterated => moved[1] = Zero
        /\ iter <= 1
        /\ pc # "Exhausted"
        /\ ~(pc = "loop" /\ iter >= 1)

\* C3 as amended: with n = 1 and no edges every iteration reports a total
\* movement of exactly 0; for every converge_eps > 0 and max_iter >= 1 the
\* loop stops after the first iteration as Converged; with converge_eps = 0
\* the test 0 < 0 fails, the loop runs all max_iter iterations and ends
\* Exhausted.
C3_SingleNodeConvergesForPositiveEps ==
    (N = 1 /\ ShapesMatch /\ NoEdges /\ max_iter >= 1) =>
        /\ \A k \in 1 .. Len(moved) : moved[k] = Zero
        /\ FGt(converge_eps, Zero) =>
              /\ iter <= 1
              /\ pc # "Exhausted"
              /\ ~(pc = "loop" /\ iter >= 1)
        /\ converge_eps = Zero =>
              /\ pc # "Converged"
              /\ pc = "Exhausted" => iter = max_iter

C3_Witness ==
    /\ N = 1 /\ NoEdges /\ ShapesMatch
    /\ max_iter >= 2
    /\ FGt(converge_eps, Zero)
    /\ pc = "Converged" /\ iter = 1 /\ moved = <<Zero>>

\* C4 as claimed: when len(neighbors) = len(positions) and every neighbor
\* index names a node, the call ends without a panic, for every n >= 0.
C4_NoFaultWhenShapesMatch ==
    (ShapesMatch /\ EdgesInRange) =>
        pc # "Panic" /\ fault = "none"

\* C5: a shape mismatch is detected at entry: when len(neighbors) differs from
\* len(positions) the call panics on the assertion before any iteration, with
\* no force accumulated and no position modified.
C5_ShapeMismatchAtEntry ==
    ~ShapesMatch =>
        /\ pc \in {"Idle", "Panic"}
        /\ pc = "Panic" => fault = "assertion failed: node_neighbors.len() == n"
        /\ forces = << >>
        /\ node_positions = pos0
        /\ iter = 0 /\ moved = << >>

C5_Witness ==
    /\ pc = "Panic"
    /\ N >= 1
    /\ ~ShapesMatch

InIteration ==
    pc \in {"reset_forces", "update_force_each_node_pair",
            "update_force_each_edge", "update_positions"}

C6_Safety ==
    (pc # "Idle" /\ fault = "none") =>
        /\ iter <= max_iter
        /\ Len(moved) = IF InIteration THEN iter - 1 ELSE iter
        /\ InIteration \/ pc = "iterated" =>
              step = FSub(temp, FMul(FromInt(iter - 1), dt))
        /\ \A k \in 1 .. Len(moved) - 1 : ~FLt(moved[k], converge_eps)
        /\ pc = "loop" /\ iter >= 1 => ~FLt(moved[iter], converge_eps)
        /\ pc = "Converged" => iter >= 1 /\ FLt(moved[iter], converge_eps)
        /\ pc = "Exhausted" =>
              /\ iter = max_iter
              /\ \A k \in 1 .. Len(moved) : ~FLt(moved[k], converge_eps)

\* What is left to run: the iterations not yet begun, and the steps of the
\* running one.
Rank ==
    CASE pc = "Idle" -> 7 * (MAX_ITER + 1) + 2
      [] pc = "loop" -> 7 * (max_iter - iter) + 1
      [] pc = "reset_forces" -> 7 * (max_iter - iter) + 7
      [] pc = "update_force_each_node_pair" -> 7 * (max_iter - iter) + 6
      [] pc = "update_force_each_edge" -> 7 * (max_iter - iter) + 5
      [] pc = "update_positions" -> 7 * (max_iter - iter) + 4
      [] pc = "iterated" -> 7 * (max_iter - iter) + 3
      [] OTHER -> 0

FAbs(a) == [m |-> Abs(a.m), e |-> a.e]

\* The forces of the pairs (i1, i2), i1 < i2, in the order of the pass.
RECURSIVE pair_terms(_, _, _, _)
pair_terms(pos, i1, i2, kr) ==
    IF i1 >= Size(pos) - 1 THEN << >>
    ELSE IF i2 >= Size(pos) THEN pair_terms(pos, i1 + 1, i1 + 2, kr)
    ELSE <<repulsive_force(pos[i1], pos[i2], kr)>>
         \o pair_terms(pos, i1, i2 + 1, kr)

\* The forces of the adjacency entries, in the order of the pass.
RECURSIVE edge_terms(_, _, _, _, _)
edge_terms(pos, nbrs, i1, j, ks) ==
    IF i1 >= Size(pos) THEN << >>
    ELSE IF j > Len(nbrs[i1]) THEN edge_terms(pos, nbrs, i1 + 1, 1, ks)
    ELSE <<scale(attractive_force(pos[i1], pos[nbrs[i1][j]], ks), MinusOne)>>
         \o edge_terms(pos, nbrs, i1, j + 1, ks)

\* |x| + |y| summed over a sequence of vectors.
RECURSIVE magnitude(_)
magnitude(terms) ==
    IF terms = << >> THEN Zero
    ELSE FAdd(FAdd(FAbs(Head(terms).x), FAbs(Head(terms).y)),
              magnitude(Tail(terms)))

\* 2^(2 - Prec): four units of roundoff.
Roundoff == [m |-> 2^(Prec - 1), e |-> 3 - 2 * Prec]

\* u and v are sums of the same `count` terms of total magnitude `mag`, added
\* in f32 in different orders.
VNear(u, v, count, mag) ==
    LET bound == FMul(FMul(FromInt(count), Roundoff), mag)
    IN /\ FLe(FAbs(FSub(u.x, v.x)), bound)
       /\ FLe(FAbs(FSub(u.y, v.y)), bound)

PairTerms == pair_terms(prev_pos, 0, 1, k_r)

EdgeTerms == edge_terms(prev_pos, node_neighbors, 0, 1, k_s)

\* The sum of the accumulators, added up in index order.
RECURSIVE vector_sum(_, _)
vector_sum(fs, i) ==
    IF i < 0 THEN P2dNew ELSE add_scaled(vector_sum(fs, i - 1), One, fs[i])

TotalForce == vector_sum(forces, Size(forces) - 1)

AfterRepulsion == pc = "update_force_each_edge" /\ N >= 1

AfterAttraction == pc = "update_positions" /\ N >= 1

\* C7 as claimed: after reset_forces and the pairwise repulsion pass the
\* vector sum of all force accumulators is the zero vector, for any n >= 1
\* and any positions, and again after the edge-attraction pass.
C7_MomentumExactlyZero ==
    AfterRepulsion \/ AfterAttraction => TotalForce = P2dNew

\* C7 as amended: every pair adds +F to one accumulator and -F to the other,
\* so the vector sum of the accumulators is the zero vector exactly for
\* n <= 2, and for n >= 3 up to the rounding of the f32 additions: each
\* coordinate of the sum is at most (terms + n) * 2^(2 - Prec) times the total
\* magnitude of the forces added; the same after the edge-attraction pass.
C7_MomentumZeroUpToRounding ==
    /\ AfterRepulsion =>
          LET total == TotalForce
              terms == PairTerms
          IN /\ N <= 2 => total = P2dNew
             /\ VNear(total, P2dNew, Len(terms) + N, magnitude(terms))
    /\ AfterAttraction =>
          LET total == TotalForce
              terms == PairTerms \o EdgeTerms
          IN /\ N <= 2 => total = P2dNew
             /\ VNear(total, P2dNew, Len(terms) + N, magnitude(terms))

C7_Witness ==
    /\ AfterAttraction
    /\ N = 3
    /\ ~NoEdges
    /\ \A i \in DOMAIN forces : forces[i] # P2dNew
    /\ TotalForce # P2dNew

\* The adjacency with every entry i -> j listed as j -> i instead.
RECURSIVE sources_of(_, _, _)
sources_of(nbrs, j, i) ==
    IF i >= Size(nbrs) THEN << >>
    ELSE [k \in 1 .. Len(SelectSeq(nbrs[i], LAMBDA t : t = j)) |-> i]
         \o sources_of(nbrs, j, i + 1)

Reversed(nbrs) == [j \in DOMAIN nbrs |-> sources_of(nbrs, j, 0)]

\* Every entry listed in both directions.
BothWays(nbrs) == [i \in DOMAIN nbrs |-> nbrs[i] \o Reversed(nbrs)[i]]

\* The accumulators one pass yields for the positions the running iteration
\* began with, under adjacency nbrs.
Accumulated(nbrs) ==
    update_force_each_edge(
        update_force_each_node_pair(reset_forces(forces), prev_pos, k_r),
        prev_pos, nbrs, k_s).forces

\* What the edge pass alone adds under adjacency nbrs.
Attraction(nbrs) ==
    update_force_each_edge(reset_forces(forces), prev_pos, nbrs, k_s).forces

Entries == {<<i, j>> \in (DOMAIN node_neighbors) \X (DOMAIN node_neighbors) :
               \E k \in 1 .. Len(node_neighbors[i]) : node_neighbors[i][k] = j}

OnlyEntry(i, j) == [a \in DOMAIN node_neighbors |-> IF a = i THEN <<j>> ELSE << >>]

Dot(u, v) == FAdd(FMul(u.x, v.x), FMul(u.y, v.y))

\* C10 as claimed: an entry i -> j pulls i toward j on accumulator[i] and adds
\* the exact opposite to accumulator[j]; listing the entries as j -> i yields
\* the same accumulators, and listing them in both directions doubles what
\* the edge pass adds.
C10_SameAccumulators ==
    (AfterAttraction /\ EdgesInRange) =>
        /\ forces = Accumulated(Reversed(node_neighbors))
        /\ \A i \in DOMAIN forces :
              Attraction(BothWays(node_neighbors))[i] =
                  scale(Attraction(node_neighbors)[i], FromInt(2))

\* C10 as amended: an entry i -> j adds a force F that pulls i toward j to
\* accumulator[i] and -F to accumulator[j], and the entry j -> i adds exactly
\* the same two contributions; the accumulators of a pass over the entries
\* listed the other way round, which adds the same contributions in another
\* order, are the same up to the rounding of the f32 additions, and listing
\* every entry in both directions doubles what the edge pass adds, up to that
\* rounding; with a single entry both hold exactly.
C10_SymmetricAttraction ==
    (AfterAttraction /\ EdgesInRange) =>
        /\ \A e \in Entries :
              LET a == Attraction(OnlyEntry(e[1], e[2]))
                  b == Attraction(OnlyEntry(e[2], e[1]))
              IN /\ a = b
                 /\ a[e[1]] = scale(a[e[2]], MinusOne) \/ e[1] = e[2]
                 /\ prev_pos[e[1]] # prev_pos[e[2]] =>
                       FGt(Dot(a[e[1]], sub(prev_pos[e[2]], prev_pos[e[1]])), Zero)
        /\ LET reversed == Accumulated(Reversed(node_neighbors))
               once     == Attraction(node_neighbors)
               twice    == Attraction(BothWays(node_neighbors))
               edges    == EdgeTerms
               all      == PairTerms \o edges
               bound    == FMul(FMul(FromInt(Len(all)), Roundoff), magnitude(all))
               bound2   == FMul(FMul(FromInt(2 * Len(edges)), Roundoff),
                                magnitude(edges))
           IN \A i \in DOMAIN forces :
                 /\ Len(edges) = 1 =>
                       /\ forces[i] = reversed[i]
                       /\ twice[i] = scale(once[i], FromInt(2))
                 /\ FLe(FAbs(FSub(forces[i].x, reversed[i].x)), bound)
                 /\ FLe(FAbs(FSub(forces[i].y, reversed[i].y)), bound)
                 /\ FLe(FAbs(FSub(twice[i].x, FMul(once[i].x, FromInt(2)))), bound2)
                 /\ FLe(FAbs(FSub(twice[i].y, FMul(once[i].y, FromInt(2)))), bound2)

C10_Witness ==
    /\ AfterAttraction /\ EdgesInRange
    /\ N = 3
    /\ Cardinality(Entries) = 3
    /\ forces # Accumulated(Reversed(node_neighbors))

\* iterate has returned from its first run on two free nodes without edges
\* that started at distinct places of the region.
TwoFreeNodesMovedOnce ==
    /\ pc = "iterated" /\ iter = 1
    /\ N = 2 /\ lock_first_n_positions = 0 /\ NoEdges
    /\ prev_pos[0] # prev_pos[1]
    /\ InRegion(prev_pos[0]) /\ InRegion(prev_pos[1])

\* 2^(6 - Prec): the relative error allowed to a squared displacement, which
\* carries the rounding of a position in [0, 1] to Prec bits.
Tolerance == [m |-> 2^(Prec - 1), e |-> 7 - 2 * Prec]

\* Node i has moved by T0 (up to rounding), straight away from node j.
MovedByT0Away(i, j) ==
    LET disp  == sub(node_positions[i], prev_pos[i])
        away  == sub(prev_pos[i], prev_pos[j])
        t0sq  == FMul(temp, temp)
        cross == FSub(FMul(disp.x, away.y), FMul(disp.y, away.x))
    IN /\ FLe(FAbs(FSub(length_squared(disp), t0sq)), FMul(Tolerance, t0sq))
       /\ FGt(Dot(disp, away), Zero)
       /\ FLe(FMul(cross, cross),
              FMul(FMul(Tolerance, Tolerance),
                   FMul(length_squared(disp), length_squared(away))))

\* At least T0 away from every border of the region.
Interior(p) ==
    /\ FLe(FAdd(min_pos.x, temp), p.x) /\ FLe(p.x, FSub(max_pos.x, temp))
    /\ FLe(FAdd(min_pos.y, temp), p.y) /\ FLe(p.y, FSub(max_pos.y, temp))

\* Coordinate by coordinate, node i has moved by at most T0 (up to rounding)
\* and never toward node j.
MovedAtMostT0Away(i, j) ==
    LET disp  == sub(node_positions[i], prev_pos[i])
        away  == sub(prev_pos[i], prev_pos[j])
        limit == FAdd(temp, FMul(Tolerance, temp))
    IN /\ FLe(FAbs(disp.x), limit) /\ FLe(FAbs(disp.y), limit)
       /\ FMul(disp.x, away.x).m >= 0 /\ FMul(disp.y, away.y).m >= 0
       /\ away.x = Zero => disp.x = Zero
       /\ away.y = Zero => disp.y = Zero

\* C8 as claimed: two unlocked nodes without edges that start at distinct
\* places anywhere in the region [0,1]^2 have each, after the first iteration,
\* been displaced by step(0) = T0 away from the other node, whatever the
\* magnitude of the raw repulsive force.
C8_DisplacedByT0Anywhere ==
    TwoFreeNodesMovedOnce =>
        /\ step = temp
        /\ MovedByT0Away(0, 1) /\ MovedByT0Away(1, 0)

\* C8 as amended: two unlocked nodes without edges that start at distinct
\* places in the region stand, after the first iteration, where a displacement
\* of length step(0) = T0 (up to f32 rounding) straight away from the other
\* node takes them, clamped coordinate by coordinate into the region: a node
\* at least T0 away from the border has moved by T0 whatever the magnitude of
\* the raw repulsive force, a node nearer the border may be stopped at the
\* border and move less or not at all.
C8_DisplacedByT0ThenClipped ==
    TwoFreeNodesMovedOnce =>
        /\ step = temp
        /\ \A i \in {0, 1} :
              /\ Interior(prev_pos[i]) => MovedByT0Away(i, 1 - i)
              /\ MovedAtMostT0Away(i, 1 - i)
              /\ InRegion(node_positions[i])

C8_Witness ==
    /\ TwoFreeNodesMovedOnce
    /\ Interior(prev_pos[0]) /\ Interior(prev_pos[1])
    /\ FGt(FAbs(forces[0].x), FromInt(100))
    /\ FLt(FAbs(sub(node_positions[0], prev_pos[0]).x), temp)

HasNetForce(i) == FGt(FSqrt(length_squared(forces[i])), Zero)

RECURSIVE added_up(_, _)
added_up(x, count) == IF count = 0 THEN Zero ELSE FAdd(added_up(x, count - 1), x)

=============================================================================
